---- MODULE Spec2Model ----
(***************************************************************************)
(* GlossonPharmacy.py: the inventory table, the sales table and the sale   *)
(* flow of SalesManager.make_sale, one database statement per step.        *)
(*                                                                         *)
(* Every browser session reruns main() and so owns a DatabaseManager; the  *)
(* sessions share the two tables.  execute_query commits each write on its *)
(* own, so every statement is one atomic step on the tables and the steps  *)
(* of concurrent make_sale calls interleave freely.                        *)
(*                                                                         *)
(* Money is counted in whole units, a sale_date is the ordinal of the call *)
(* (datetime.now() is read once per call and only grows).  A SELECT has no *)
(* ORDER BY: which of several matching rows comes first is the store's     *)
(* choice and is modelled as a choice.  A statement may fail in the driver *)
(* (psycopg2.Error), which execute_query catches: SpecFaulty lets every    *)
(* statement fail or not, the other specifications have a healthy gateway. *)
(*                                                                         *)
(*   Spec       concurrent sessions                                        *)
(*   SpecSolo   one session, one handler at a time                         *)
(*   SpecFaulty one session over a gateway whose statements may fail       *)
(*   SpecC1     N sessions each selling one unit of an item stocked with N *)
(***************************************************************************)
EXTENDS Integers, Sequences, FiniteSets, Bags

\* ---------------------------------------------------------------- bounds
NumSessions == 2      \* browser sessions of the concurrent specification
MaxCalls    == 2      \* make_sale calls in a run
MaxRows     == 2      \* rows the inventory table may grow to
MaxN        == 3      \* concurrent calls of the regression scenario

\* What is typed into the forms.
Items      == {"aspirin", "ibuprofen"}
Quantities == {1, 2}
Prices     == {0, 2}
Customers  == {"Alice"}

Sessions == 1 .. NumSessions
Procs    == 1 .. (IF NumSessions > MaxN THEN NumSessions ELSE MaxN)

\* ------------------------------------------------------------- helpers
Range(s) == {s[k] : k \in DOMAIN s}

\* The elements of a sequence with their multiplicities, the order left open.
BagOfSeq(s) == [r \in Range(s) |-> Cardinality({k \in DOMAIN s : s[k] = r})]

\* A Dict[str, int] in iteration order: lines with pairwise distinct keys.
Requests ==
    {r \in UNION {[1 .. n -> [item : Items, quantity : Quantities]] : n \in 1 .. Cardinality(Items)} :
        \A i, j \in DOMAIN r : r[i].item = r[j].item => i = j}

\* ---------------------------------------------------------------- state
VARIABLES
    inventory,   \* table inventory: a sequence of rows [item, quantity, price]
    sales,       \* table sales: a sequence of rows [item, quantity, price, customer, sale_date]
    pc,          \* per session: "idle", "price", "qty" or "apply"
    req,         \* per session: items_quantities of the running call
    cust,        \* per session: customer of the running call
    sale_date,   \* per session: sale_date of the running call
    line,        \* per session: position of the first loop in items_quantities
    item_price,  \* per session: <<>> or <<item_price>> of the line being validated
    queries,     \* per session: the list queries
    qi,          \* per session: position of the second loop in queries
    total_price, \* per session: total_price
    res,         \* per session: what the call reported on the page (st.error / st.success)
    listed,      \* per session: <<>> or <<[ok, rows]>>, the listing the page holds
    ncalls,      \* make_sale calls started
    \* history, read by the properties only
    added,       \* per item: total quantity inserted by add_item_to_inventory
    inv0,        \* per session: inventory when the running call started
    sales0,      \* per session: sales when the running call started
    gwfail,      \* per session: a statement of the call failed at the gateway
    wfail,       \* per session: a write statement of the call failed at the gateway
    issued,      \* per session: the write statements the call handed to the gateway
    lastAdd      \* <<>> or <<[by, row, inv0, sales0]>>: the last add, while nothing wrote after it

vars == <<inventory, sales, pc, req, cust, sale_date, line, item_price, queries, qi,
          total_price, res, listed, ncalls, added, inv0, sales0, gwfail, wfail, issued, lastAdd>>

NoResult == [status |-> "none", error |-> "", line |-> 0, total |-> 0]

\* ----------------------------------------------------- the data store
InsertInventory == "INSERT INTO inventory (item, quantity, price) VALUES (%s, %s, %s)"
InsertSales == "INSERT INTO sales (item, quantity, price, customer, sale_date) VALUES (%s,%s,%s,%s,%s)"
UpdateInventory == "UPDATE inventory SET quantity = quantity - %s WHERE item = %s"

\* The rows of inv a WHERE item = %s selects.
Matching(inv, item) == {k \in DOMAIN inv : inv[k].item = item}

\* UPDATE inventory SET quantity = quantity - %s WHERE item = %s: every row
\* of that name, relative to the row's committed quantity.
UpdateQuantity(inv, quantity, item) ==
    [k \in DOMAIN inv |->
        IF inv[k].item = item THEN [inv[k] EXCEPT !.quantity = @ - quantity] ELSE inv[k]]

\* execute_query on a write statement: the tables after it, committed at
\* once (lines 42-44).  A driver error is caught and shown and nothing is
\* committed; the caller gets None either way.  The SELECTs are the three
\* operators that follow.
execute_query(query, params, inv, sal, fail) ==
    IF fail THEN [inventory |-> inv, sales |-> sal]
    ELSE IF query = InsertInventory
         THEN [inventory |-> Append(inv, params), sales |-> sal]
    ELSE IF query = InsertSales
         THEN [inventory |-> inv, sales |-> Append(sal, params)]
    ELSE [inventory |-> UpdateQuantity(inv, params.quantity, params.item), sales |-> sal]

\* get_item_price: the values it may return, <<>> for None.  A failed
\* SELECT returns None from execute_query and `price[0][0] if price else
\* None` turns it into None.
get_item_price(inv, item, fail) ==
    IF fail \/ Matching(inv, item) = {} THEN {<<>>}
    ELSE {<<inv[k].price>> : k \in Matching(inv, item)}

\* get_current_quantity: the values it may return; 0 when no row matches or
\* the SELECT failed.
get_current_quantity(inv, item, fail) ==
    IF fail \/ Matching(inv, item) = {} THEN {0}
    ELSE {inv[k].quantity : k \in Matching(inv, item)}

\* Variant: the first, shadowed definition (SELECT item FROM inventory).
get_items_in_inventory_Names(inv, fail) ==
    IF fail THEN BagOfSeq(<<>>) ELSE BagOfSeq([k \in DOMAIN inv |-> [item |-> inv[k].item]])

\* get_items_in_inventory (the second definition, which is the one bound):
\* every row, [] when the SELECT failed.  The order is the store's: the
\* result is kept as the bag of its rows.
get_items_in_inventory(inv, fail) ==
    IF fail THEN BagOfSeq(<<>>) ELSE BagOfSeq(inv)

\* ------------------------------------------------------ make_sale parts
\* Variant: <= in place of <.
InsufficientStock_OrEqual(current_quantity, quantity) == current_quantity <= quantity

\* if current_quantity < quantity
InsufficientStock(current_quantity, quantity) == current_quantity < quantity

\* Variant: + in place of *.
SalePrice_Sum(price, quantity) == price + quantity

\* sale_price = item_price * quantity
SalePrice(price, quantity) == price * quantity

\* Variant: the decrement queued before the insert.
LineQueries_UpdateFirst(item, quantity, sale_price, customer, date) ==
    << [query |-> UpdateInventory, params |-> [quantity |-> quantity, item |-> item]],
       [query |-> InsertSales,
        params |-> [item |-> item, quantity |-> quantity, price |-> sale_price,
                    customer |-> customer, sale_date |-> date]] >>

\* The two statements a validated line appends to queries.
LineQueries(item, quantity, sale_price, customer, date) ==
    << [query |-> InsertSales,
        params |-> [item |-> item, quantity |-> quantity, price |-> sale_price,
                    customer |-> customer, sale_date |-> date]],
       [query |-> UpdateInventory, params |-> [quantity |-> quantity, item |-> item]] >>

\* Variant: the second loop nested in the first, run after each line.
AfterLine_ApplyAtOnce(ln, n) == "apply"

\* Where the first loop goes after a validated line: on to the next line,
\* or, after the last one, to the second loop.
AfterLine(ln, n) == IF ln = n THEN "apply" ELSE "price"

\* ------------------------------------------------------------------ Init
Init ==
    /\ inventory = <<>>
    /\ sales = <<>>
    /\ pc = [p \in Procs |-> "idle"]
    /\ req = [p \in Procs |-> <<>>]
    /\ cust = [p \in Procs |-> ""]
    /\ sale_date = [p \in Procs |-> 0]
    /\ line = [p \in Procs |-> 0]
    /\ item_price = [p \in Procs |-> <<>>]
    /\ queries = [p \in Procs |-> <<>>]
    /\ qi = [p \in Procs |-> 0]
    /\ total_price = [p \in Procs |-> 0]
    /\ res = [p \in Procs |-> NoResult]
    /\ listed = [p \in Procs |-> <<>>]
    /\ ncalls = 0
    /\ added = [i \in Items |-> 0]
    /\ inv0 = [p \in Procs |-> <<>>]
    /\ sales0 = [p \in Procs |-> <<>>]
    /\ gwfail = [p \in Procs |-> FALSE]
    /\ wfail = [p \in Procs |-> FALSE]
    /\ issued = [p \in Procs |-> <<>>]
    /\ lastAdd = <<>>

\* The regression scenario: one row of n units, no sale made yet.
InitC1 ==
    \E n \in 1 .. MaxN, price \in Prices :
        /\ inventory = <<[item |-> "aspirin", quantity |-> n, price |-> price]>>
        /\ sales = <<>>
        /\ pc = [p \in Procs |-> "idle"]
        /\ req = [p \in Procs |-> <<>>]
        /\ cust = [p \in Procs |-> ""]
        /\ sale_date = [p \in Procs |-> 0]
        /\ line = [p \in Procs |-> 0]
        /\ item_price = [p \in Procs |-> <<>>]
        /\ queries = [p \in Procs |-> <<>>]
        /\ qi = [p \in Procs |-> 0]
        /\ total_price = [p \in Procs |-> 0]
        /\ res = [p \in Procs |-> NoResult]
        /\ listed = [p \in Procs |-> <<>>]
        /\ ncalls = 0
            /\ added = [i \in Items |-> IF i = "aspirin" THEN n ELSE 0]
        /\ inv0 = [p \in Procs |-> <<>>]
        /\ sales0 = [p \in Procs |-> <<>>]
        /\ gwfail = [p \in Procs |-> FALSE]
        /\ wfail = [p \in Procs |-> FALSE]
        /\ issued = [p \in Procs |-> <<>>]
        /\ lastAdd = <<>>

\* --------------------------------------------------------------- actions
\* A widget is used: the script reruns and draws the page of session p anew.
Rerun(p) ==
    /\ pc[p] = "idle"
    /\ res' = [res EXCEPT ![p] = NoResult]
    /\ gwfail' = [gwfail EXCEPT ![p] = FALSE]
    /\ wfail' = [wfail EXCEPT ![p] = FALSE]
    /\ issued' = [issued EXCEPT ![p] = <<>>]

\* "Add to Inventory": add_item_to_inventory(item, quantity, price)
AddItem(p, item, quantity, price, fail) ==
    LET row == [item |-> item, quantity |-> quantity, price |-> price]
        db  == execute_query(InsertInventory, row, inventory, sales, fail)
    IN  /\ Rerun(p)
        /\ Len(inventory) < MaxRows
        /\ inventory' = db.inventory
        /\ sales' = db.sales
        /\ added' = IF fail THEN added ELSE [added EXCEPT ![item] = @ + quantity]
        /\ lastAdd' = IF fail THEN <<>>
                      ELSE <<[by |-> p, row |-> row, inv0 |-> inventory, sales0 |-> sales]>>
        /\ listed' = [listed EXCEPT ![p] = <<>>]
        /\ UNCHANGED <<pc, req, cust, sale_date, line, item_price, queries, qi,
                       total_price, ncalls, inv0, sales0>>

\* "View Inventory": get_items_in_inventory()
ListItems(p, fail) ==
    /\ Rerun(p)
    /\ listed' = [listed EXCEPT ![p] =
          <<[ok |-> ~fail, rows |-> get_items_in_inventory(inventory, fail)]>>]
    /\ UNCHANGED <<inventory, sales, pc, req, cust, sale_date, line, item_price, queries,
                   qi, total_price, ncalls, added, inv0, sales0, lastAdd>>

\* "Record Sale": make_sale(items_quantities, customer), lines 84-86
Call(p, items_quantities, customer) ==
    /\ Rerun(p)
    /\ ncalls' = ncalls + 1
    /\ pc' = [pc EXCEPT ![p] = "price"]
    /\ req' = [req EXCEPT ![p] = items_quantities]
    /\ cust' = [cust EXCEPT ![p] = customer]
    /\ sale_date' = [sale_date EXCEPT ![p] = ncalls + 1]
    /\ line' = [line EXCEPT ![p] = 1]
    /\ item_price' = [item_price EXCEPT ![p] = <<>>]
    /\ queries' = [queries EXCEPT ![p] = <<>>]
    /\ qi' = [qi EXCEPT ![p] = 0]
    /\ total_price' = [total_price EXCEPT ![p] = 0]
    /\ inv0' = [inv0 EXCEPT ![p] = inventory]
    /\ sales0' = [sales0 EXCEPT ![p] = sales]
    /\ listed' = [listed EXCEPT ![p] = <<>>]
    /\ UNCHANGED <<inventory, sales, added, lastAdd>>

\* The call returns: its locals die, what it reported stays on the page.
Return(p, result) ==
    /\ pc' = [pc EXCEPT ![p] = "idle"]
    /\ res' = [res EXCEPT ![p] = result]
    /\ req' = [req EXCEPT ![p] = <<>>]
    /\ cust' = [cust EXCEPT ![p] = ""]
    /\ sale_date' = [sale_date EXCEPT ![p] = 0]
    /\ line' = [line EXCEPT ![p] = 0]
    /\ item_price' = [item_price EXCEPT ![p] = <<>>]
    /\ queries' = [queries EXCEPT ![p] = <<>>]
    /\ qi' = [qi EXCEPT ![p] = 0]
    /\ total_price' = [total_price EXCEPT ![p] = 0]
    /\ inv0' = [inv0 EXCEPT ![p] = <<>>]
    /\ sales0' = [sales0 EXCEPT ![p] = <<>>]

\* lines 89-92: item_price = self.get_item_price(item)
GetItemPrice(p, fail) ==
    /\ pc[p] = "price"
    /\ gwfail' = [gwfail EXCEPT ![p] = @ \/ fail]
    /\ \E price \in get_item_price(inventory, req[p][line[p]].item, fail) :
          IF price = <<>>
          THEN Return(p, [status |-> "error", error |-> "No price found",
                          line |-> line[p], total |-> 0])
          ELSE /\ item_price' = [item_price EXCEPT ![p] = price]
               /\ pc' = [pc EXCEPT ![p] = "qty"]
               /\ UNCHANGED <<res, req, cust, sale_date, line, queries, qi, total_price,
                              inv0, sales0>>
    /\ UNCHANGED <<inventory, sales, listed, ncalls, added, wfail, issued, lastAdd>>

\* lines 93-101: the stock check and the line's two queued statements
GetCurrentQuantity(p, fail) ==
    LET item       == req[p][line[p]].item
        quantity   == req[p][line[p]].quantity
        sale_price == SalePrice(item_price[p][1], quantity)
    IN  /\ pc[p] = "qty"
        /\ gwfail' = [gwfail EXCEPT ![p] = @ \/ fail]
        /\ \E current_quantity \in get_current_quantity(inventory, item, fail) :
              IF InsufficientStock(current_quantity, quantity)
              THEN Return(p, [status |-> "error", error |-> "Insufficient quantity",
                              line |-> line[p], total |-> 0])
              ELSE /\ queries' = [queries EXCEPT ![p] =
                          @ \o LineQueries(item, quantity, sale_price, cust[p], sale_date[p])]
                   /\ total_price' = [total_price EXCEPT ![p] = @ + sale_price]
                   /\ line' = [line EXCEPT ![p] = @ + 1]
                   /\ item_price' = [item_price EXCEPT ![p] = <<>>]
                   /\ pc' = [pc EXCEPT ![p] = AfterLine(line[p], Len(req[p]))]
                   /\ qi' = [qi EXCEPT ![p] =
                          IF AfterLine(line[p], Len(req[p])) = "apply" THEN 1 ELSE 0]
                   /\ UNCHANGED <<res, req, cust, sale_date, inv0, sales0>>
        /\ UNCHANGED <<inventory, sales, listed, ncalls, added, wfail, issued, lastAdd>>

\* lines 103-105: one pass of the second loop; after the last statement the
\* success message
ExecuteNext(p, fail) ==
    LET q  == queries[p][qi[p]]
        db == execute_query(q.query, q.params, inventory, sales, fail)
    IN  /\ pc[p] = "apply"
        /\ inventory' = db.inventory
        /\ sales' = db.sales
        /\ gwfail' = [gwfail EXCEPT ![p] = @ \/ fail]
        /\ wfail' = [wfail EXCEPT ![p] = @ \/ fail]
        /\ issued' = [issued EXCEPT ![p] = Append(@, q)]
        /\ lastAdd' = IF fail THEN lastAdd ELSE <<>>
        /\ IF qi[p] = Len(queries[p])
           THEN Return(p, [status |-> "success", error |-> "", line |-> 0,
                           total |-> total_price[p]])
           ELSE /\ qi' = [qi EXCEPT ![p] = @ + 1]
                /\ UNCHANGED <<pc, res, req, cust, sale_date, line, item_price, queries,
                               total_price, inv0, sales0>>
        /\ UNCHANGED <<listed, ncalls, added>>

\* ------------------------------------------------------- specifications
\* Concurrent sessions over a gateway that does not fail.
Next ==
    \E p \in Sessions :
        \/ \E item \in Items, quantity \in Quantities, price \in Prices :
              AddItem(p, item, quantity, price, FALSE)
        \/ \E r \in Requests, c \in Customers : ncalls < MaxCalls /\ Call(p, r, c)
        \/ GetItemPrice(p, FALSE)
        \/ GetCurrentQuantity(p, FALSE)
        \/ ExecuteNext(p, FALSE)

Spec == Init /\ [][Next]_vars

\* One session, which runs one handler to its end before the next.
NextSolo ==
    \/ \E item \in Items, quantity \in Quantities, price \in Prices :
          AddItem(1, item, quantity, price, FALSE)
    \/ ListItems(1, FALSE)
    \/ \E r \in Requests, c \in Customers : ncalls < MaxCalls /\ Call(1, r, c)
    \/ GetItemPrice(1, FALSE)
    \/ GetCurrentQuantity(1, FALSE)
    \/ ExecuteNext(1, FALSE)

SpecSolo == Init /\ [][NextSolo]_vars

\* One session over a gateway where any statement may fail.
NextFaulty ==
    \/ \E fail \in BOOLEAN, item \in Items, quantity \in Quantities, price \in Prices :
          AddItem(1, item, quantity, price, fail)
    \/ \E fail \in BOOLEAN : ListItems(1, fail)
    \/ \E r \in Requests, c \in Customers : ncalls < MaxCalls /\ Call(1, r, c)
    \/ \E fail \in BOOLEAN : GetItemPrice(1, fail)
    \/ \E fail \in BOOLEAN : GetCurrentQuantity(1, fail)
    \/ \E fail \in BOOLEAN : ExecuteNext(1, fail)

SpecFaulty == Init /\ [][NextFaulty]_vars

\* N sessions, each selling one unit of the one item once.  The sessions are
\* alike, so they are numbered in the order in which their calls start.
NextC1 ==
    \E p \in 1 .. MaxN :
        \/ /\ p <= added["aspirin"]
           /\ ncalls = p - 1
           /\ \E c \in Customers : Call(p, <<[item |-> "aspirin", quantity |-> 1]>>, c)
        \/ GetItemPrice(p, FALSE)
        \/ GetCurrentQuantity(p, FALSE)
        \/ ExecuteNext(p, FALSE)

SpecC1 == InitC1 /\ [][NextC1]_vars

\* ================================================================ claims
\* Session p's make_sale returns in this step.
Returns(p) == pc[p] # "idle" /\ pc'[p] = "idle"

RECURSIVE SumSeq(_)
SumSeq(s) == IF s = <<>> THEN 0 ELSE Head(s) + SumSeq(Tail(s))

\* The quantities of the sales rows of an item, summed.
RECURSIVE SoldOf(_, _)
SoldOf(sal, item) ==
    IF sal = <<>> THEN 0
    ELSE (IF Head(sal).item = item THEN Head(sal).quantity ELSE 0) + SoldOf(Tail(sal), item)

\* ---------------------------------------------------------------- C1
\* C1: N concurrent make_sale calls, each for 1 unit of the item whose one
\* row starts with N units: no call reports an error, and once all N have
\* returned all N reported success, the quantity is 0 and the sales table
\* holds exactly N rows of 1 unit of the item.
C1_AllSucceed ==
    LET N == added["aspirin"]
    IN  /\ \A p \in 1 .. N : res[p].status # "error"
        /\ (ncalls = N /\ \A p \in 1 .. N : pc[p] = "idle") =>
              /\ \A p \in 1 .. N : res[p].status = "success"
              /\ Len(inventory) = 1
              /\ inventory[1].quantity = 0
              /\ Len(sales) = N
              /\ \A k \in DOMAIN sales : sales[k].item = "aspirin" /\ sales[k].quantity = 1

\* MaxN calls have all returned, and a call that started later inserted its
\* sales row first: the calls did interleave.
C1_Witness ==
    /\ added["aspirin"] = MaxN
    /\ ncalls = MaxN
    /\ \A p \in 1 .. MaxN : pc[p] = "idle" /\ res[p].status = "success"
    /\ \E i, j \in DOMAIN sales : i < j /\ sales[i].sale_date > sales[j].sale_date

\* ---------------------------------------------------------------- C2
\* C2: stock is never oversold: while the table holds one row per item name
\* (the data model's invariant, so that duplicate rows play no part), every
\* row's quantity is non-negative, whatever the interleaving of add_item and
\* concurrent make_sale calls.
C2_NeverOversold ==
    (\A i, j \in DOMAIN inventory : inventory[i].item = inventory[j].item => i = j)
        => \A k \in DOMAIN inventory : inventory[k].quantity >= 0

\* ---------------------------------------------------------------- C3
\* A line fails validation against the table inv: no row of the item, or no
\* row of it holds the requested quantity.
FailsValidation(inv, ln) == \A k \in Matching(inv, ln.item) : inv[k].quantity < ln.quantity

\* C3: a make_sale call with a line that fails validation, at any position,
\* returns with an error, not success, and leaves the inventory table and
\* the sales table as they were when it started.
C3_ValidationAbort ==
    [][\A p \in Procs :
          (Returns(p) /\ \E i \in DOMAIN req[p] : FailsValidation(inv0[p], req[p][i]))
              => /\ res'[p].status = "error"
                 /\ inventory' = inv0[p]
                 /\ sales' = sales0[p]]_vars

\* A call stopped at its second line for want of stock, its first line
\* having passed both checks.
C3_Witness ==
    /\ pc[1] = "idle"
    /\ res[1].status = "error"
    /\ res[1].error = "Insufficient quantity"
    /\ res[1].line = 2

\* ---------------------------------------------------------------- C4
\* Every line names an item with exactly one row that holds at least the
\* requested quantity.
Sellable(inv, r) ==
    \A i \in DOMAIN r :
        /\ Cardinality(Matching(inv, r[i].item)) = 1
        /\ \A k \in Matching(inv, r[i].item) : r[i].quantity <= inv[k].quantity

UnitPrice(inv, item) == inv[CHOOSE k \in Matching(inv, item) : TRUE].price

LineTotals(inv, r) == [i \in DOMAIN r |-> r[i].quantity * UnitPrice(inv, r[i].item)]

\* C4: a call run alone, with no gateway failure, whose every line is
\* sellable reports success with the sum of the line totals, appends one
\* sales row per line with line_total = quantity x unit_price, and takes
\* exactly the requested quantity off each sold item's row.
C4_SaleAlone ==
    [][\A p \in Procs :
          (Returns(p) /\ ~gwfail'[p] /\ Sellable(inv0[p], req[p]))
              => /\ res'[p].status = "success"
                 /\ res'[p].total = SumSeq(LineTotals(inv0[p], req[p]))
                 /\ sales' = sales0[p] \o
                       [i \in DOMAIN req[p] |->
                           [item |-> req[p][i].item, quantity |-> req[p][i].quantity,
                            price |-> LineTotals(inv0[p], req[p])[i],
                            customer |-> cust[p], sale_date |-> sale_date[p]]]
                 /\ inventory' =
                       [k \in DOMAIN inv0[p] |->
                           IF \E i \in DOMAIN req[p] : req[p][i].item = inv0[p][k].item
                           THEN [inv0[p][k] EXCEPT !.quantity =
                                   @ - req[p][CHOOSE i \in DOMAIN req[p] :
                                                 req[p][i].item = inv0[p][k].item].quantity]
                           ELSE inv0[p][k]]]_vars

\* A two-line sale has succeeded, one line at unit price 0 and one at a
\* unit price above 0.
C4_Witness ==
    /\ pc[1] = "idle"
    /\ res[1].status = "success"
    /\ ~gwfail[1]
    /\ res[1].total > 0
    /\ \E i, j \in DOMAIN sales :
          /\ i < j
          /\ sales[i].sale_date = sales[j].sale_date
          /\ (sales[i].price = 0) # (sales[j].price = 0)

\* ---------------------------------------------------------------- C5
\* C5: a call in which a write statement failed at the gateway does not
\* report success.
C5_FailureReported == \A p \in Procs : res[p].status = "success" => ~wfail[p]

\* ---------------------------------------------------------------- C6
\* C6: in every state, for every item with a single inventory row, the
\* quantity added for the item minus its current quantity equals the summed
\* quantities of the item's sales rows.
C6_OneUnit ==
    \A item \in Items :
        Cardinality(Matching(inventory, item)) = 1 =>
            \A k \in Matching(inventory, item) :
                added[item] - inventory[k].quantity = SoldOf(sales, item)

\* ---------------------------------------------------------------- C7
\* C7: the inventory table holds at most one row per item name.
C7_OneRowPerName == \A item \in Items : Cardinality(Matching(inventory, item)) <= 1

\* ---------------------------------------------------------------- C8
\* C8: the quantity decrement of a sale line changes exactly one inventory
\* row, by the sold amount, and leaves every other row as it was.
C8_OneRowDebited ==
    [][\A p \in Procs :
          (pc[p] = "apply" /\ qi'[p] # qi[p] /\ queries[p][qi[p]].query = UpdateInventory)
              => /\ DOMAIN inventory' = DOMAIN inventory
                 /\ \E k \in DOMAIN inventory :
                       /\ inventory'[k] = [inventory[k] EXCEPT !.quantity =
                                              @ - queries[p][qi[p]].params.quantity]
                       /\ \A j \in DOMAIN inventory \ {k} : inventory'[j] = inventory[j]]_vars

\* ---------------------------------------------------------------- C9
\* C9: after add_item, while nothing else has written, the inventory table
\* is the table before the add with the one new row appended, the sales
\* table is as before, and a listing then made by the same session, with no
\* gateway failure, contains the row (name, quantity, unit_price).
C9_AddThenList ==
    lastAdd # <<>> =>
        LET a == lastAdd[1]
        IN  /\ inventory = Append(a.inv0, a.row)
            /\ sales = a.sales0
            /\ (listed[a.by] # <<>> /\ listed[a.by][1].ok) => BagIn(a.row, listed[a.by][1].rows)

\* A row was added to a table that held a row, after a sale, and then
\* listed.
C9_Witness ==
    /\ lastAdd # <<>>
    /\ listed[1] # <<>>
    /\ listed[1][1].ok
    /\ Len(inventory) = 2
    /\ sales # <<>>

\* ---------------------------------------------------------------- C10
\* C10: a call hands a write statement to the gateway only when its first
\* loop has passed every line, and the k-th statement it hands over is the
\* sales insert (k odd) or the quantity decrement (k even) of line
\* (k + 1) \div 2: the lines in iteration order, insert before decrement.
C10_WriteOrder ==
    [][\A p \in Procs :
          (issued'[p] # issued[p] /\ issued'[p] # <<>>)
              => LET k  == Len(issued'[p])
                     q  == issued'[p][k]
                     ln == req[p][(k + 1) \div 2]
                 IN  /\ line[p] = Len(req[p]) + 1
                     /\ k = Len(issued[p]) + 1
                     /\ \A j \in DOMAIN issued[p] : issued'[p][j] = issued[p][j]
                     /\ q.query = (IF k % 2 = 1 THEN InsertSales ELSE UpdateInventory)
                     /\ q.params.item = ln.item
                     /\ q.params.quantity = ln.quantity]_vars

\* A two-line call has handed all four of its statements to the gateway.
C10_Witness == Len(issued[1]) = 4

====
